---- MODULE Spec2Model ----
(***************************************************************************)
(* Model of scripts/generate_llm_tags.py: one run of the script is the     *)
(* sequence main -> get_post_content -> gate -> call_llm_for_tags ->       *)
(* update_post, and the file on disk is the only state that survives a run.*)
(*                                                                         *)
(* Text is a sequence of symbols.  A symbol is one character ("-", ":",    *)
(* " ", "\n", ",", "[", "]", a quote) or one word (a run of letters the    *)
(* code never looks into, such as "title" or "llm_tags").  Offsets count   *)
(* symbols.                                                                *)
(***************************************************************************)
EXTENDS Naturals, Sequences, FiniteSets

\* ------------------------------------------------------------------ bounds
\* Longest enumerated generator response, in symbols.
MaxRespLen == 3
\* Number of consecutive runs of the script on the same file.
MaxRuns == 2

\* -------------------------------------------------------------- text helpers
NL == "\n"
\* str.strip() with no argument removes whitespace.
WS == {" ", "\n", "\t"}

RECURSIVE LStrip(_)
LStrip(s) == IF s # <<>> /\ Head(s) \in WS THEN LStrip(Tail(s)) ELSE s

RECURSIVE RStrip(_)
RStrip(s) ==
  IF s # <<>> /\ s[Len(s)] \in WS THEN RStrip(SubSeq(s, 1, Len(s) - 1)) ELSE s

\* str.strip()
Strip(s) == LStrip(RStrip(s))

\* str.replace(c, '')
Remove(s, c) == SelectSeq(s, LAMBDA x : x # c)

\* str.split(sep): always at least one piece, empty pieces kept.
RECURSIVE SplitOn(_, _)
SplitOn(s, sep) ==
  IF \A i \in 1..Len(s) : s[i] # sep
  THEN <<s>>
  ELSE LET i == CHOOSE i \in 1..Len(s) :
                  s[i] = sep /\ \A j \in 1..(i - 1) : s[j] # sep
       IN  <<SubSeq(s, 1, i - 1)>> \o SplitOn(SubSeq(s, i + 1, Len(s)), sep)

\* Concatenation of a sequence of texts.
RECURSIVE Flatten(_)
Flatten(ss) == IF ss = <<>> THEN <<>> ELSE Head(ss) \o Flatten(Tail(ss))

\* [f(x) for x in ss]
MapSeq(ss, f(_)) == [i \in 1..Len(ss) |-> f(ss[i])]

\* pat occurs in s at (1-based) position i.
IsAt(pat, s, i) ==
  /\ i >= 1
  /\ i + Len(pat) - 1 <= Len(s)
  /\ \A k \in 1..Len(pat) : s[i + k - 1] = pat[k]

Min(S) == CHOOSE x \in S : \A y \in S : x <= y

\* ------------------------------------------------------------ the constants
GENERATED_TAGS_KEY == "llm_tags"
DELIM == <<"-", "-", "-">>


\* ------------------------------------------------ the front-matter pattern
\* The pieces of r'^---\n(.*?)\n---'.
OpenPat == DELIM \o <<NL>>
ClosePat == <<NL>> \o DELIM

\* '^' under re.MULTILINE: the start of the text or the start of any line.
LineStart(s, p) == p = 1 \/ s[p - 1] = NL

\* The positions where the lazy group can end: a "\n---" at or after the
\* first symbol that follows the opening "---\n" found at p.
Closings(s, p) == {q \in (p + Len(OpenPat))..Len(s) : IsAt(ClosePat, s, q)}

\* The positions where the whole pattern matches.
MatchStarts(s) ==
  {p \in 1..Len(s) : LineStart(s, p) /\ IsAt(OpenPat, s, p) /\ Closings(s, p) # {}}

\* re.search(r'^---\n(.*?)\n---', content, re.DOTALL | re.MULTILINE):
\* the leftmost match, its group 1 the shortest possible.  end is
\* match.end(), the number of symbols up to and including the closing "---".
front_matter_match(s) ==
  IF MatchStarts(s) = {}
  THEN [found |-> FALSE, group1 |-> <<>>, end |-> 0]
  ELSE LET p == Min(MatchStarts(s))
           q == Min(Closings(s, p))
       IN  [found |-> TRUE,
            group1 |-> SubSeq(s, p + Len(OpenPat), q - 1),
            end |-> q + Len(ClosePat) - 1]

\* content[i:]
From(s, i) == SubSeq(s, i + 1, Len(s))

\* ------------------------------------------------------------------- YAML
\* What yaml.safe_load returns: k is "map" (a dict, m its items in insertion
\* order), "seq" (a list, l), "str" (a string, s), "none" (None) or "error"
\* (safe_load raises yaml.YAMLError).  A value of a mapping has t "str",
\* "null" or "list".
VNull == [t |-> "null", s |-> <<>>, l |-> <<>>]
VStr(x) == [t |-> "str", s |-> x, l |-> <<>>]
VList(x) == [t |-> "list", s |-> <<>>, l |-> x]
VError == [t |-> "error", s |-> <<>>, l |-> <<>>]

DNone == [k |-> "none", m |-> <<>>, s |-> <<>>, l |-> <<>>]
DMap(x) == [k |-> "map", m |-> x, s |-> <<>>, l |-> <<>>]
DStr(x) == [k |-> "str", m |-> <<>>, s |-> x, l |-> <<>>]
DSeq(x) == [k |-> "seq", m |-> <<>>, s |-> <<>>, l |-> x]
DError == [k |-> "error", m |-> <<>>, s |-> <<>>, l |-> <<>>]

Indicators == {":", "[", "]", ",", "-", "\"", "'"}
HasSym(s, S) == \E i \in 1..Len(s) : s[i] \in S

\* A block sequence entry: "- item".
IsItem(ln) == Len(ln) >= 3 /\ ln[1] = "-" /\ ln[2] = " "
\* A block mapping entry: "key:" or "key: value".
IsEntry(ln) ==
  /\ Len(ln) >= 2
  /\ ln[1] \notin Indicators \cup WS
  /\ ln[2] = ":"
  /\ Len(ln) = 2 \/ (Len(ln) >= 4 /\ ln[3] = " ")
\* A plain scalar on a line of its own.
IsPlain(ln) == ln # <<>> /\ ~HasSym(ln, Indicators) /\ ln[1] \notin WS

\* The value after "key: ": a flow sequence, null, or a plain scalar.
entry_value(rest) ==
  IF rest = <<>> \/ rest = <<"null">> \/ rest = <<"~">> THEN VNull
  ELSE IF rest[1] = "["
  THEN IF rest[Len(rest)] # "]" \/ HasSym(SubSeq(rest, 2, Len(rest) - 1), {"[", "]", ":"})
       THEN VError
       ELSE LET inner == Strip(SubSeq(rest, 2, Len(rest) - 1))
                items == MapSeq(SplitOn(inner, ","), Strip)
            IN  IF inner = <<>> THEN VList(<<>>)
                ELSE IF \E i \in 1..Len(items) : items[i] = <<>> THEN VError
                ELSE VList(items)
  ELSE IF IsPlain(rest) THEN VStr(RStrip(rest))
  ELSE VError

\* d[key] = v on a dict: an existing key keeps its place.
dict_set(m, key, v) ==
  IF \E i \in 1..Len(m) : m[i].key = key
  THEN [i \in 1..Len(m) |-> IF m[i].key = key THEN [key |-> key, val |-> v] ELSE m[i]]
  ELSE Append(m, [key |-> key, val |-> v])

\* The item added to the block sequence that the last entry of m opens.
last_append(m, item) ==
  [m EXCEPT ![Len(m)].val = VList(m[Len(m)].val.l \o <<item>>)]

\* The lines of a block-style document, top to bottom.  open: the last
\* entry was "key:" with nothing after it, so "- item" lines may follow.
RECURSIVE load_lines(_, _, _)
load_lines(lines, acc, open) ==
  IF lines = <<>> \/ acc.k = "error" THEN acc
  ELSE LET ln == Head(lines)
           rest == Tail(lines)
       IN  IF Strip(ln) = <<>> THEN load_lines(rest, acc, open)
           ELSE IF IsItem(ln)
           THEN LET item == Strip(SubSeq(ln, 3, Len(ln)))
                IN  IF ~IsPlain(item) THEN DError
                    ELSE IF acc.k = "none" THEN load_lines(rest, DSeq(<<item>>), FALSE)
                    ELSE IF acc.k = "seq"
                    THEN load_lines(rest, DSeq(acc.l \o <<item>>), FALSE)
                    ELSE IF acc.k = "map" /\ open
                    THEN load_lines(rest, DMap(last_append(acc.m, item)), TRUE)
                    ELSE DError
           ELSE IF IsEntry(ln)
           THEN LET v == entry_value(SubSeq(ln, 4, Len(ln)))
                IN  IF v.t = "error" \/ acc.k \notin {"none", "map"} THEN DError
                    ELSE load_lines(rest, DMap(dict_set(acc.m, ln[1], v)), Len(ln) = 2)
           ELSE IF IsPlain(ln) /\ acc.k = "none"
           THEN load_lines(rest, DStr(RStrip(ln)), FALSE)
           ELSE DError

\* yaml.safe_load(front_matter_str)
safe_load(s) == load_lines(SplitOn(s, NL), DNone, FALSE)

\* One "key: value" entry as yaml.dump writes it in block style.
dump_entry(e) ==
  IF e.val.t = "str" THEN <<e.key, ":", " ">> \o e.val.s \o <<NL>>
  ELSE IF e.val.t = "null" THEN <<e.key, ":", " ", "null", NL>>
  ELSE IF e.val.l = <<>> THEN <<e.key, ":", " ", "[", "]", NL>>
  ELSE <<e.key, ":", NL>>
       \o Flatten(MapSeq(e.val.l, LAMBDA it : <<"-", " ">> \o it \o <<NL>>))

\* yaml.dump(front_matter_data, sort_keys=False) of a dict.
yaml_dump(m) == Flatten(MapSeq(m, dump_entry))

\* Python's truth value of what safe_load returned.
Truthy(d) ==
  \/ d.k = "map" /\ d.m # <<>>
  \/ d.k = "seq" /\ d.l # <<>>
  \/ d.k = "str" /\ d.s # <<>>

\* key in d, for a dict d.
HasKey(m, key) == \E i \in 1..Len(m) : m[i].key = key
\* d[key], for a dict d holding key.
Lookup(m, key) == m[CHOOSE i \in 1..Len(m) : m[i].key = key].val


\* ------------------------------------------------------- call_llm_for_tags
\* What the generator call produced: "text" (response.text is a string),
\* "no_text" (response.text is None) or "api_error" (APIError raised).
RespAlphabet == {"a", ",", " ", "\"", "'"}
TextsUpTo(n) == UNION {[1..k -> RespAlphabet] : k \in 0..n}
ResponseTexts == TextsUpTo(MaxRespLen) \cup {<<"go", ",", "rust", ",", "cli">>}
Responses ==
  {[kind |-> "text", text |-> t] : t \in ResponseTexts}
    \cup {[kind |-> "no_text", text |-> <<>>], [kind |-> "api_error", text |-> <<>>]}
NoResponse == [kind |-> "none", text |-> <<>>]

\* What call_llm_for_tags returns: None (none = TRUE) or a list of tags.
None == [none |-> TRUE, tags |-> <<>>]
TagList(l) == [none |-> FALSE, tags |-> l]

\* tags_text with the second replace forgotten.
tags_text_double_quotes_only(text) == Remove(Strip(text), "\"")

\* tags_text = response.text.strip().replace('"', '').replace("'", '')
tags_text(text) == Remove(Remove(Strip(text), "\""), "'")

\* [tag.strip() for tag in tags_text.split(',') if tag.strip()], and None
\* instead of an empty list.
parse_tags(text) ==
  LET tags_list == SelectSeq(MapSeq(SplitOn(tags_text(text), ","), Strip),
                             LAMBDA tag : tag # <<>>)
  IN  IF tags_list = <<>> THEN None ELSE TagList(tags_list)

\* The return value: every exception ends in "return None".
call_llm_for_tags(resp) ==
  IF resp.kind = "text" THEN parse_tags(resp.text) ELSE None

\* What call_llm_for_tags prints.
call_llm_log(resp) ==
  IF resp.kind = "api_error" THEN {"ERROR_API"}
  ELSE IF resp.kind = "no_text" THEN {"ERROR_UNEXPECTED"}
  ELSE IF parse_tags(resp.text).none THEN {"WARNING_UNPARSED"}
  ELSE {}

\* ------------------------------------------------------------- update_post
\* new_content: "---\n" + yaml.dump(front matter with the tags) + "---\n"
\* + original_content[body_start_index:]
new_content(original_content, new_tags, front_matter_data, body_start_index) ==
  OpenPat
    \o yaml_dump(dict_set(front_matter_data.m, GENERATED_TAGS_KEY, VList(new_tags)))
    \o DELIM \o <<NL>>
    \o From(original_content, body_start_index)

\* ------------------------------------------------------------------ __main__
\* if not file_to_process or file_to_process == '[]'
NoFile(f) == f = "unset" \/ f = "[]"

\* if not front_matter or not content
NothingToProcess(fm, body) == ~Truthy(fm) \/ body = <<>>

\* GENERATED_TAGS_KEY in front_matter: a key of a dict, an item of a list,
\* a substring of a string.
KeyIn(fm) ==
  \/ fm.k = "map" /\ HasKey(fm.m, GENERATED_TAGS_KEY)
  \/ fm.k = "seq" /\ \E i \in 1..Len(fm.l) : fm.l[i] = <<GENERATED_TAGS_KEY>>
  \/ fm.k = "str" /\ HasSym(fm.s, {GENERATED_TAGS_KEY})

\* The gate with "is None" for "is not None".
HasTags_is_none(fm) ==
  fm.k = "map" /\ KeyIn(fm) /\ Lookup(fm.m, GENERATED_TAGS_KEY).t = "null"

\* ... and front_matter[GENERATED_TAGS_KEY] is not None, for a dict.
HasTags(fm) ==
  fm.k = "map" /\ KeyIn(fm) /\ Lookup(fm.m, GENERATED_TAGS_KEY).t # "null"

\* The rewrite entered without the check.
TagsUsable_unchecked(t) == TRUE

\* if llm_tags and len(llm_tags) > 0
TagsUsable(t) == ~t.none /\ Len(t.tags) > 0

\* sys.exit(0) of the branch taken when no usable tags came back.
ExitNoTags == "exit0"

\* ------------------------------------------------------------- the inputs
Line(k, v) == <<k, ":", " ">> \o v
FrontMatters ==
  { Line("title", <<"Hello">>),
    Line("title", <<"Hello">>) \o <<NL>> \o Line("date", <<"d1">>),
    Line("title", <<"Hello">>) \o <<NL>>
      \o Line(GENERATED_TAGS_KEY, <<"[", "x", ",", " ", "y", "]">>),
    Line("title", <<"Hello">>) \o <<NL, GENERATED_TAGS_KEY, ":", NL,
                                   "-", " ", "x", NL, "-", " ", "y">>,
    Line(GENERATED_TAGS_KEY, <<"[", "]">>),
    <<GENERATED_TAGS_KEY, ":", NL>> \o Line("title", <<"Hello">>),
    Line("title", <<"Hello">>) \o <<NL>> \o Line(GENERATED_TAGS_KEY, <<"null">>),
    <<>>,
    <<"Hello">>,
    <<GENERATED_TAGS_KEY>>,
    <<"-", " ", "x", NL, "-", " ", "y">>,
    <<"-", " ", GENERATED_TAGS_KEY>>,
    Line("title", <<"[", "x">>),
    Line("title", <<"Hello">>) \o <<NL, "-", " ", "x">> }

LaterBlock ==
  <<NL, "Body", NL>> \o OpenPat \o Line("b", <<"c">>) \o ClosePat \o <<NL, "tail">>
Bodies == {<<>>, <<NL>>, <<NL, "Body", " ", "text.">>, <<"x">>, LaterBlock}

\* Every front matter between delimiters at the start of the file, and a
\* few front matters with text before the block, no opening delimiter or
\* no closing delimiter.
Documents ==
  {OpenPat \o fm \o ClosePat \o b : fm \in FrontMatters, b \in Bodies}
    \cup
  {pre \o op \o fm \o cl \o b :
     pre \in {<<>>, <<"intro", NL>>},
     op \in {OpenPat, <<>>},
     fm \in {Line("title", <<"Hello">>),
             Line(GENERATED_TAGS_KEY, <<"[", "]">>)},
     cl \in {ClosePat, <<>>},
     b \in {<<>>, <<NL, "Body", " ", "text.">>, LaterBlock}}

\* ---------------------------------------------------------------- the state
VARIABLES
  env,           \* POST_TO_PROCESS and GEMINI_API_KEY
  disk,          \* the file at file_to_process
  pc,            \* where the run is
  run,           \* 1 for the first run on the file, 2 for the next, ...
  front_matter,  \* get_post_content's results
  content,
  body_start,
  response,      \* what the generator answered
  llm_tags,      \* call_llm_for_tags' result
  status,        \* "running", "exit0", "exit1" or "fault" (uncaught exception)
  fault_at,      \* where the uncaught exception was raised
  log,           \* the messages printed in this run
  calls,         \* generator calls in this run
  writes,        \* open(file_path, 'w') calls in this run
  start,         \* the file's content when this run began
  prev,          \* the previous run: the file it left, its calls and writes,
                 \* and whether every call and write up to its end succeeded
  file0,         \* the file's content before the first run
  gen_failed,    \* some generator call so far returned no usable tags
  io_failed      \* some write so far failed

vars ==
  <<env, disk, pc, run, front_matter, content, body_start, response, llm_tags,
    status, fault_at, log, calls, writes, start, prev, file0, gen_failed, io_failed>>

locals == <<front_matter, content, body_start, response, llm_tags>>
history == <<start, prev, file0, gen_failed, io_failed>>

NoPrev == [content |-> <<>>, calls |-> 0, writes |-> 0, clean |-> TRUE]

Init ==
  /\ env \in [file : {"unset", "[]", "post"}, key : BOOLEAN]
  /\ disk \in {[exists |-> FALSE, content |-> <<>>]}
                \cup {[exists |-> TRUE, content |-> d] : d \in Documents}
  /\ pc = "main"
  /\ run = 1
  /\ front_matter = DNone
  /\ content = <<>>
  /\ body_start = 0
  /\ response = NoResponse
  /\ llm_tags = None
  /\ status = "running"
  /\ fault_at = "none"
  /\ log = {}
  /\ calls = 0
  /\ writes = 0
  /\ start = disk.content
  /\ prev = NoPrev
  /\ file0 = disk.content
  /\ gen_failed = FALSE
  /\ io_failed = FALSE

\* The process ends: sys.exit(code), or an uncaught exception.
Exit(st, where, msgs) ==
  /\ pc' = "done"
  /\ status' = st
  /\ fault_at' = where
  /\ log' = log \cup msgs

\* Lines 95-106: the environment.
Main ==
  /\ pc = "main"
  /\ IF NoFile(env.file) THEN Exit("exit0", "none", {"INFO_NO_POST"})
     ELSE IF ~env.key THEN Exit("exit1", "none", {"ERROR_NO_KEY"})
     ELSE /\ pc' = "get"
          /\ log' = log \cup {"STARTING"}
          /\ UNCHANGED <<status, fault_at>>
  /\ UNCHANGED <<env, disk, run, locals, calls, writes, history>>

\* Lines 109-112 with get_post_content (11-33).
GetPostContent ==
  /\ pc = "get"
  /\ LET m == front_matter_match(disk.content)
         data == safe_load(m.group1)
         body == From(disk.content, m.end)
     IN  IF ~disk.exists
         THEN Exit("exit1", "none", {"ERROR_NOT_FOUND"}) /\ UNCHANGED locals
         ELSE IF ~m.found
         THEN Exit("exit1", "none", {"ERROR_NO_FRONT_MATTER"}) /\ UNCHANGED locals
         ELSE IF data.k = "error"
         THEN Exit("fault", "safe_load", {}) /\ UNCHANGED locals
         ELSE /\ front_matter' = data
              /\ content' = body
              /\ body_start' = m.end
              /\ UNCHANGED <<response, llm_tags>>
              /\ IF NothingToProcess(data, body)
                 THEN Exit("exit1", "none", {})
                 ELSE pc' = "gate" /\ UNCHANGED <<status, fault_at, log>>
  /\ UNCHANGED <<env, disk, run, calls, writes, history>>

\* Lines 115-117: skip the call when the tags are there.  On a string or a
\* list that holds the key, front_matter[GENERATED_TAGS_KEY] raises TypeError.
Gate ==
  /\ pc = "gate"
  /\ IF front_matter.k # "map" /\ KeyIn(front_matter)
     THEN Exit("fault", "gate", {})
     ELSE IF HasTags(front_matter)
     THEN Exit("exit0", "none", {"INFO_HAS_TAGS"})
     ELSE /\ pc' = "llm"
          /\ log' = log \cup {"CALLING"}
          /\ UNCHANGED <<status, fault_at>>
  /\ UNCHANGED <<env, disk, run, locals, calls, writes, history>>

\* Lines 121-122: the generator answers with any response.
CallLLM ==
  /\ pc = "llm"
  /\ \E resp \in Responses :
       /\ response' = resp
       /\ llm_tags' = call_llm_for_tags(resp)
       /\ log' = log \cup call_llm_log(resp)
       /\ gen_failed' = (gen_failed \/ ~TagsUsable(call_llm_for_tags(resp)))
  /\ calls' = calls + 1
  /\ pc' = "finish"
  /\ UNCHANGED <<env, disk, run, front_matter, content, body_start, status,
                 fault_at, writes, start, prev, file0, io_failed>>

\* Lines 124-135 with update_post (73-90).  front_matter_data[key] = tags
\* raises TypeError on a string or a list, and changes the caller's dict in
\* place; open(file_path, 'w') or f.write may fail, and a failed write
\* leaves the file truncated.
Finish ==
  /\ pc = "finish"
  /\ IF ~TagsUsable(llm_tags)
     THEN /\ Exit(ExitNoTags, "none", {"WARNING_NO_TAGS"})
          /\ UNCHANGED <<disk, writes, io_failed, front_matter>>
     ELSE IF front_matter.k # "map"
     THEN /\ Exit("fault", "update_post", {})
          /\ UNCHANGED <<disk, writes, io_failed, front_matter>>
     ELSE \E w \in {"ok", "open_error", "write_error"} :
            /\ front_matter' = DMap(dict_set(front_matter.m, GENERATED_TAGS_KEY,
                                             VList(llm_tags.tags)))
            /\ writes' = writes + 1
            /\ io_failed' = (io_failed \/ w # "ok")
            /\ disk' = [disk EXCEPT !.content =
                          IF w = "ok"
                          THEN new_content(disk.content, llm_tags.tags,
                                           front_matter, body_start)
                          ELSE IF w = "write_error" THEN <<>> ELSE @]
            /\ IF w = "ok" THEN Exit("exit0", "none", {"SUCCESS"})
               ELSE Exit("fault", "write", {})
  /\ UNCHANGED <<env, run, content, body_start, response, llm_tags, calls,
                 start, prev, file0, gen_failed>>

\* The script is started again on the same file.
Rerun ==
  /\ pc = "done"
  /\ run < MaxRuns
  /\ run' = run + 1
  /\ pc' = "main"
  /\ front_matter' = DNone
  /\ content' = <<>>
  /\ body_start' = 0
  /\ response' = NoResponse
  /\ llm_tags' = None
  /\ status' = "running"
  /\ fault_at' = "none"
  /\ log' = {}
  /\ calls' = 0
  /\ writes' = 0
  /\ start' = disk.content
  /\ prev' = [content |-> disk.content, calls |-> calls, writes |-> writes,
               clean |-> ~gen_failed /\ ~io_failed]
  /\ UNCHANGED <<env, disk, file0, gen_failed, io_failed>>

Next == Main \/ GetPostContent \/ Gate \/ CallLLM \/ Finish \/ Rerun

Spec == Init /\ [][Next]_vars


\* ================================================================ the claims
\* What the run was given: the environment lets it reach the file.
Reached == ~NoFile(env.file) /\ env.key /\ disk.exists
\* The metadata and the body that the splitter finds in the file the run
\* began with.
StartMatch == front_matter_match(start)
StartMeta == safe_load(StartMatch.group1)
StartBody == From(start, StartMatch.end)
\* The run rewrote the file and ended normally.
Rewritten == pc = "done" /\ status = "exit0" /\ "SUCCESS" \in log

\* A document with a metadata block that parses to a mapping.
ValidDocument(s) ==
  front_matter_match(s).found /\ safe_load(front_matter_match(s).group1).k = "map"

\* C1: after split, rewrite and a second split, the body is the body the
\* first split returned: the read-modify-write cycle adds, removes and
\* changes nothing in it.
C1_BodyPreserved ==
  (Rewritten /\ ValidDocument(start)) =>
     /\ front_matter_match(disk.content).found
     /\ From(disk.content, front_matter_match(disk.content).end) = StartBody

\* The text after the closing delimiter line.
AfterDelimiterLine(s) ==
  LET b == From(s, front_matter_match(s).end)
  IN  IF b # <<>> /\ Head(b) = NL THEN Tail(b) ELSE b

ScenarioA_Input ==
  <<"-", "-", "-", NL, "title", ":", " ", "Hello", NL, "-", "-", "-", NL,
    "Body", " ", "text.">>
ScenarioA_Tags == <<<<"go">>, <<"rust">>, <<"cli">>>>
ScenarioA_Output ==
  <<"-", "-", "-", NL, "title", ":", " ", "Hello", NL,
    "llm_tags", ":", NL, "-", " ", "go", NL, "-", " ", "rust", NL,
    "-", " ", "cli", NL, "-", "-", "-", NL, "Body", " ", "text.">>

\* C2: a successful run on a document without the reserved key writes the
\* opening delimiter line, the old keys in their order, llm_tags with the
\* generated tags as the last key, the closing delimiter line and then the
\* original body with nothing in between; Scenario A's file becomes
\* Scenario A's expected output.
C2_WrittenFile ==
  (Rewritten /\ ValidDocument(start) /\ ~HasKey(StartMeta.m, GENERATED_TAGS_KEY)) =>
     /\ disk.content =
          OpenPat
            \o yaml_dump(Append(StartMeta.m, [key |-> GENERATED_TAGS_KEY,
                                              val |-> VList(llm_tags.tags)]))
            \o DELIM \o <<NL>>
            \o AfterDelimiterLine(start)
     /\ (start = ScenarioA_Input /\ llm_tags.tags = ScenarioA_Tags)
          => disk.content = ScenarioA_Output

\* The parsed metadata of the run's file holds llm_tags with a value that
\* is not null.
TagsPresent ==
  /\ Reached
  /\ ValidDocument(start)
  /\ HasKey(StartMeta.m, GENERATED_TAGS_KEY)
  /\ Lookup(StartMeta.m, GENERATED_TAGS_KEY).t # "null"

\* C3: a run whose parsed metadata holds llm_tags with a non-null value (an
\* empty list included) calls the generator zero times, never writes the
\* file and exits 0.
C3_GateSkips ==
  (pc = "done" /\ TagsPresent) =>
     /\ calls = 0
     /\ writes = 0
     /\ disk.content = start
     /\ status = "exit0"

\* C4: in a run after the first, on a valid starting document and with
\* every earlier generator call and write successful, the generator is not
\* called and the file stays what the previous run left.
C4_SecondRunIdempotent ==
  (run >= 2 /\ ValidDocument(file0) /\ prev.clean) =>
     /\ calls = 0
     /\ writes = 0
     /\ disk.content = prev.content

\* C4's case: the first run called the generator and wrote the tags, the
\* second run has ended at the gate.
C4_Witness ==
  /\ run = 2
  /\ pc = "done"
  /\ ValidDocument(file0)
  /\ prev.clean
  /\ prev.calls = 1
  /\ prev.writes = 1
  /\ prev.content # file0
  /\ "INFO_HAS_TAGS" \in log
  /\ disk.content = prev.content

\* C5: a document with a valid metadata block and an empty body does not
\* end the run with exit 1.
C5_EmptyBodyLegal ==
  (pc = "done" /\ Reached /\ ValidDocument(start) /\ StartMeta.m # <<>>
     /\ StartBody = <<>>)
    => status # "exit1"

\* The process's exit status is 1: sys.exit(1), or an uncaught exception.
ExitsOne == status \in {"exit1", "fault"}
\* The file is missing, has no block, or its block is no non-empty mapping.
NotAMapping == ~disk.exists \/ ~ValidDocument(start) \/ StartMeta.m = <<>>
\* The file has no block, or the block's text is no YAML.
NoParse == ~front_matter_match(start).found \/ StartMeta.k = "error"

\* C6: the run exits 1 if and only if the credential is missing (with a
\* file designated) or the document cannot be parsed, and exits 0 in every
\* other case.  Stated so that either reading of "cannot be parsed" passes:
\* exit 1 needs at least a document that is no non-empty mapping, and a
\* document with no block or no YAML in it is enough for exit 1.
C6_ExitCodes ==
  pc = "done" =>
     /\ ExitsOne =>
          ~NoFile(env.file) /\ (~env.key \/ NotAMapping)
     /\ (~NoFile(env.file) /\ (~env.key \/ (disk.exists /\ NoParse)))
          => ExitsOne

\* The pattern matches at the first symbol of the text.
BlockAtStart(s) == IsAt(OpenPat, s, 1) /\ Closings(s, 1) # {}

\* C7: a document with no delimiter-bounded block at its very first
\* character is refused: the run's exit status is 1, the generator is not
\* called and nothing is written.  (A block whose closing delimiter
\* is followed by other text on its line counts as a block here, so only
\* the place of the block decides.)
C7_BlockMustBeAtStart ==
  (pc = "done" /\ Reached /\ ~BlockAtStart(start)) =>
     /\ ExitsOne
     /\ calls = 0
     /\ writes = 0
     /\ disk.content = start

\* The pieces of a response in the order code and reference agree on:
\* split on commas, the quote characters removed from each piece, each
\* piece then trimmed, the empty pieces dropped.
ReferenceTags(text) ==
  SelectSeq(
    MapSeq(SplitOn(text, ","), LAMBDA piece : Strip(Remove(Remove(piece, "'"), "\""))),
    LAMBDA piece : piece # <<>>)

\* The order the claim gives: each piece trimmed first, its quote
\* characters removed after.
ClaimedTags(text) ==
  SelectSeq(
    MapSeq(SplitOn(text, ","), LAMBDA piece : Remove(Remove(Strip(piece), "'"), "\"")),
    LAMBDA piece : piece # <<>>)

\* The generator was called and gave nothing usable: an error, no text, or
\* a text with no tag in it.
GenerationFailed ==
  /\ calls = 1
  /\ response.kind # "text" \/ ReferenceTags(response.text) = <<>>

\* C8: when generation fails the run logs a warning, exits 0 and never
\* opens the file for writing: the file is what it was before the run.
C8_FailedGenerationLeavesFile ==
  (pc = "done" /\ GenerationFailed) =>
     /\ status = "exit0"
     /\ "WARNING_NO_TAGS" \in log
     /\ writes = 0
     /\ disk.content = start

\* C8's case, Scenario D: the generator returned an empty string.
C8_Witness ==
  /\ pc = "done"
  /\ calls = 1
  /\ response = [kind |-> "text", text |-> <<>>]
  /\ status = "exit0"
  /\ disk.content = start

\* C9: a run ends in an uncaught fault only by a filesystem write error
\* during the rewrite: never in the splitter's parse step, at the gate or
\* at the rewriter's insertion of the reserved key.
C9_OnlyWriteFaults == status = "fault" => fault_at = "write"

\* C10 as stated: the parser's tags are the response split on commas, each
\* piece trimmed, then stripped of quote characters, the empty pieces
\* dropped; no tag is empty; no piece left means failure, not an empty list.
C10_ClaimedOrder ==
  (calls = 1 /\ response.kind = "text") =>
     /\ llm_tags.tags = ClaimedTags(response.text)
     /\ llm_tags.none <=> ClaimedTags(response.text) = <<>>
     /\ \A i \in 1..Len(llm_tags.tags) : llm_tags.tags[i] # <<>>

\* C10 amended: the parser's tags are the response split on commas, each
\* piece stripped of quote characters and then trimmed, the empty pieces
\* dropped, in response order; no tag is empty; no piece left means
\* failure, not an empty list.
C10_ParserMatchesReference ==
  (calls = 1 /\ response.kind = "text") =>
     /\ llm_tags.tags = ReferenceTags(response.text)
     /\ llm_tags.none <=> ReferenceTags(response.text) = <<>>
     /\ \A i \in 1..Len(llm_tags.tags) : llm_tags.tags[i] # <<>>

\* C10's case: a quote before a space, where the two orders differ, and a
\* response that holds two tags and an empty piece.
C10_Witness ==
  /\ pc = "finish"
  /\ response.kind = "text"
  /\ \/ /\ response.text = <<"\"", " ", "a">>
        /\ llm_tags = TagList(<<<<"a">>>>)
     \/ /\ response.text = <<"a", ",", ",">>
        /\ llm_tags = TagList(<<<<"a">>>>)

====
